---------------------------- MODULE Spec2Model ----------------------------
(***************************************************************************)
(* A model of the TTL/LRU cache of internal/cache/cache.go.                *)
(*                                                                         *)
(* The LRUCache struct is the variables head, tail, cache, capacity and    *)
(* defaultTTL; the Node objects it points to live in the heap `node`, a    *)
(* function from node identities to the Node fields.  `now` is the host    *)
(* clock read by time.Now().  Calls are executed one at a time: each       *)
(* action is one whole call of Put, Get, GetAll, Evict or EvictAll.        *)
(*                                                                         *)
(* `last` records the call that was just made and what it returned.  The   *)
(* variables stores and fresh are history variables: they record what      *)
(* callers did, never what the cache holds, and no call reads them.        *)
(*                                                                         *)
(* In SpecThreads the calls are made by goroutines that run concurrently:  *)
(* `mutex` is the sync.RWMutex of the struct, `goroutine` gives each       *)
(* goroutine's place in the method it runs and its local variables, and    *)
(* `fatal` tells that the Go runtime has stopped the process.              *)
(***************************************************************************)
EXTENDS Integers, Sequences, FiniteSets, TLC

VARIABLES head, tail, cache, node, capacity, defaultTTL, now, last,
          stores, fresh, mutex, goroutine, fatal

vars == <<head, tail, cache, node, capacity, defaultTTL, now, last,
          stores, fresh, mutex, goroutine, fatal>>

(***************************************************************************)
(* Bounds of the model.                                                    *)
(***************************************************************************)
MaxNodes == 2        \* Node objects alive at once
MaxTime == 1         \* last instant of the clock

Keys == {"a", "b"}          \* the keys callers use in runs of every kind of call
MoreKeys == {"a", "b", "c"} \* the keys callers use in runs of Put alone
Values == {"v1", "v2"}      \* the payloads callers store
TTLs == {0, 1}              \* the ttl arguments callers pass when they pass a valid one
Capacities == {1, 2}        \* NewLRUCache's capacity argument
DefaultTTLs == {0, 1}       \* NewLRUCache's defaultTTL argument

Nil == 0                    \* the nil *Node
NoValue == "nil"            \* the nil interface{} value
ZeroTime == -1              \* time.Time{}: before every instant of the clock
NodeIds == 1..MaxNodes

(***************************************************************************)
(* The errors of the package, and the context's error.                     *)
(***************************************************************************)
OK == "nil"
errEmptyKey == "key cannot be empty"
errNegativeTTL == "ttl cannot be negative"
errKeyNotFound == "key not found"
errExpiredKey == "key expired"
errNilNode == "node is nil"
errEmptyCache == "cache is empty"
ctxErr == "context canceled"

(***************************************************************************)
(* The LRUCache as one value, for the list operations below.               *)
(***************************************************************************)
Self == [head |-> head, tail |-> tail, cache |-> cache, node |-> node]

Range(f) == {f[x] : x \in DOMAIN f}

MapDelete(m, k) == [x \in DOMAIN m \ {k} |-> m[x]]

MapPut(m, k, v) == [x \in DOMAIN m \cup {k} |-> IF x = k THEN v ELSE m[x]]

(***************************************************************************)
(* The nodes of the list in order, head first: the ids met following next  *)
(* from c.head.                                                            *)
(***************************************************************************)
RECURSIVE Walk(_, _, _)
Walk(c, n, fuel) ==
    IF n = Nil \/ fuel = 0 THEN <<>>
    ELSE <<n>> \o Walk(c, c.node[n].next, fuel - 1)

ListOf(c) == Walk(c, c.head, MaxNodes + 1)

List == ListOf(Self)

SeqSet(s) == {s[i] : i \in DOMAIN s}

(***************************************************************************)
(* Go's garbage collector: a Node that neither the cache struct, the map   *)
(* nor a live Node points to is gone, and its identity can be used again.  *)
(***************************************************************************)
RECURSIVE Closure(_, _, _)
Closure(c, S, fuel) ==
    LET T == S \cup {c.node[n].prev : n \in S} \cup {c.node[n].next : n \in S}
        U == T \ {Nil}
    IN IF U = S \/ fuel = 0 THEN S ELSE Closure(c, U, fuel - 1)

Live(c) == Closure(c, ({c.head, c.tail} \cup Range(c.cache)) \ {Nil}, MaxNodes)

Collect(c) == [c EXCEPT !.node = [n \in Live(c) |-> c.node[n]]]

(***************************************************************************)
(* A Node has no identity but its address, which no code reads: the live   *)
(* Nodes are renumbered 1, 2, ... in list order (then any Node outside the *)
(* list), so that two heaps of the same shape are the same state.          *)
(***************************************************************************)
RECURSIVE Ascending(_)
Ascending(S) ==
    IF S = {} THEN <<>>
    ELSE LET m == CHOOSE x \in S : \A y \in S : x <= y
         IN <<m>> \o Ascending(S \ {m})

Canon(c) ==
    LET order == ListOf(c) \o Ascending(DOMAIN c.node \ SeqSet(ListOf(c)))
        id(n) == IF n = Nil THEN Nil
                 ELSE CHOOSE i \in DOMAIN order : order[i] = n
    IN [head |-> id(c.head),
        tail |-> id(c.tail),
        cache |-> [k \in DOMAIN c.cache |-> id(c.cache[k])],
        node |-> [i \in DOMAIN order |->
                    [c.node[order[i]] EXCEPT !.prev = id(@), !.next = id(@)]]]

NewId(c) == CHOOSE n \in NodeIds \ DOMAIN c.node :
                \A m \in NodeIds \ DOMAIN c.node : n <= m

(***************************************************************************)
(* addNode, removeNode, moveToHead: the list operations, on node id n.     *)
(***************************************************************************)
addNode(c, n) ==
    LET c1 == [c EXCEPT !.node[n].next = c.head]
        c2 == IF c.head # Nil THEN [c1 EXCEPT !.node[c.head].prev = n] ELSE c1
        c3 == [c2 EXCEPT !.head = n]
    IN IF c3.tail = Nil THEN [c3 EXCEPT !.tail = n] ELSE c3

\* a removeNode that leaves the removed node's own links as they were
removeNode_KeepsLinks(c, n) ==
    LET p == c.node[n].prev
        x == c.node[n].next
        c1 == IF p # Nil THEN [c EXCEPT !.node[p].next = x]
                         ELSE [c EXCEPT !.head = x]
    IN IF x # Nil THEN [c1 EXCEPT !.node[x].prev = p]
                  ELSE [c1 EXCEPT !.tail = p]

removeNode(c, n) ==
    LET p == c.node[n].prev
        x == c.node[n].next
        c1 == IF p # Nil THEN [c EXCEPT !.node[p].next = x]
                         ELSE [c EXCEPT !.head = x]
        c2 == IF x # Nil THEN [c1 EXCEPT !.node[x].prev = p]
                         ELSE [c1 EXCEPT !.tail = p]
    IN [c2 EXCEPT !.node[n].prev = Nil, !.node[n].next = Nil]

\* a moveToHead that leaves the node where it is
moveToHead_Stays(c, n) == c

moveToHead(c, n) == addNode(removeNode(c, n), n)

(***************************************************************************)
(* getTTL: a ttl of 0 stands for the cache's default.                      *)
(***************************************************************************)
getTTL(ttl) == IF ttl = 0 THEN defaultTTL ELSE ttl

(***************************************************************************)
(* time.Time.After: strictly later.                                        *)
(***************************************************************************)
After(t, u) == t > u

(***************************************************************************)
(* Put, after its checks and under the lock.  Each branch gives the cache  *)
(* it leaves, the error it returns and the path it took: "update" (the key *)
(* was in the map), "evict" (the map was full and the tail was dropped),   *)
(* "insert" (neither), "none" (it returned early).                         *)
(***************************************************************************)
\* the found branch, on the node n that the map gave
PutUpdateNode(c, n, value, ttl) ==
    LET c1 == [c EXCEPT !.node[n].value = value,
                        !.node[n].TTL = now + getTTL(ttl)]
    IN [c |-> moveToHead(c1, n), err |-> OK, path |-> "update"]

PutUpdate(c, key, value, ttl) == PutUpdateNode(c, c.cache[key], value, ttl)

\* an eviction that drops the head, the most recently put node
PutEvictTail_Head(c) ==
    removeNode([c EXCEPT !.cache = MapDelete(c.cache, c.node[c.head].key)], c.head)

PutEvictTail(c) ==
    removeNode([c EXCEPT !.cache = MapDelete(c.cache, c.node[c.tail].key)], c.tail)

PutInsert(c, key, value, ttl) ==
    LET n == NewId(c)
        newNode == [key |-> key, value |-> value, TTL |-> now + getTTL(ttl),
                    prev |-> Nil, next |-> Nil]
        c1 == [c EXCEPT !.node = MapPut(c.node, n, newNode),
                        !.cache = MapPut(c.cache, key, n)]
    IN [c |-> addNode(c1, n), err |-> OK, path |-> "insert"]

\* a fullness test that is off by one
PutFull_Early(c) == Cardinality(DOMAIN c.cache) + 1 >= capacity

PutFull(c) == Cardinality(DOMAIN c.cache) >= capacity

\* the key was not found in the map
PutAbsent(c, key, value, ttl) ==
    IF PutFull(c)
    THEN IF c.tail = Nil THEN [c |-> c, err |-> errNilNode, path |-> "none"]
         ELSE [PutInsert(Collect(PutEvictTail(c)), key, value, ttl)
                 EXCEPT !.path = "evict"]
    ELSE PutInsert(c, key, value, ttl)

PutLocked(c, key, value, ttl) ==
    IF key \in DOMAIN c.cache THEN PutUpdate(c, key, value, ttl)
    ELSE PutAbsent(c, key, value, ttl)

\* a Put that looks at the ttl before it looks at the key
PutCall_ChecksTTLFirst(c, ctx, key, value, ttl) ==
    IF ctx # "live" THEN [c |-> c, err |-> ctxErr, path |-> "none"]
    ELSE IF ttl < 0 THEN [c |-> c, err |-> errNegativeTTL, path |-> "none"]
    ELSE IF key = "" THEN [c |-> c, err |-> errEmptyKey, path |-> "none"]
    ELSE PutLocked(c, key, value, ttl)

PutCall(c, ctx, key, value, ttl) ==
    IF ctx # "live" THEN [c |-> c, err |-> ctxErr, path |-> "none"]
    ELSE IF key = "" THEN [c |-> c, err |-> errEmptyKey, path |-> "none"]
    ELSE IF ttl < 0 THEN [c |-> c, err |-> errNegativeTTL, path |-> "none"]
    ELSE PutLocked(c, key, value, ttl)

(***************************************************************************)
(* Whether the call can allocate the Node it needs within MaxNodes.        *)
(***************************************************************************)
PutFits(c, ctx, key, ttl) ==
    \/ ctx # "live" \/ key = "" \/ ttl < 0
    \/ key \in DOMAIN c.cache
    \/ PutFull(c) /\ c.tail = Nil
    \/ PutFull(c) /\ c.tail # Nil
         /\ Cardinality(DOMAIN Collect(PutEvictTail(c)).node) < MaxNodes
    \/ ~PutFull(c) /\ Cardinality(DOMAIN c.node) < MaxNodes

(***************************************************************************)
(* Get.                                                                    *)
(***************************************************************************)
Miss(c, e) == [c |-> c, err |-> e, value |-> NoValue, expiresAt |-> ZeroTime]

\* a Get that reports the expiry and deletes nothing
GetExpired_Keeps(c, key) == Miss(c, errExpiredKey)

\* a Get that unlinks the expired node and leaves its key in the map
GetExpired_Unlinks(c, key) ==
    [c |-> removeNode(c, c.cache[key]), err |-> errExpiredKey,
     value |-> NoValue, expiresAt |-> ZeroTime]

GetExpired(c, key) ==
    [c |-> [c EXCEPT !.cache = MapDelete(c.cache, key)], err |-> errExpiredKey,
     value |-> NoValue, expiresAt |-> ZeroTime]

\* a Get that counts as a use: it takes the node it read to the head
GetHit_Promotes(c, key) ==
    [c |-> moveToHead(c, c.cache[key]), err |-> OK,
     value |-> c.node[c.cache[key]].value, expiresAt |-> c.node[c.cache[key]].TTL]

\* return node.value, node.TTL, nil
GetHit(c, key) ==
    [c |-> c, err |-> OK, value |-> c.node[c.cache[key]].value,
     expiresAt |-> c.node[c.cache[key]].TTL]

\* a Get that looks at the key before it looks at the context
GetCall_ChecksKeyFirst(c, ctx, key) ==
    IF key = "" THEN Miss(c, errEmptyKey)
    ELSE IF ctx # "live" THEN Miss(c, ctxErr)
    ELSE IF key \notin DOMAIN c.cache THEN Miss(c, errKeyNotFound)
    ELSE IF After(now, c.node[c.cache[key]].TTL) THEN GetExpired(c, key)
    ELSE IF c.cache[key] = Nil THEN Miss(c, errNilNode)
    ELSE GetHit(c, key)

GetCall(c, ctx, key) ==
    IF ctx # "live" THEN Miss(c, ctxErr)
    ELSE IF key = "" THEN Miss(c, errEmptyKey)
    ELSE IF key \notin DOMAIN c.cache THEN Miss(c, errKeyNotFound)
    ELSE IF After(now, c.node[c.cache[key]].TTL) THEN GetExpired(c, key)
    ELSE IF c.cache[key] = Nil THEN Miss(c, errNilNode)
    ELSE GetHit(c, key)

(***************************************************************************)
(* GetAll.  The loop visits node n with `budget` nodes still to visit      *)
(* before ctx.Done() fires; `next` is read before the node is unlinked.    *)
(***************************************************************************)
\* a sweep that deletes the key from the map and leaves the node in the list
GetAllSweep_MapOnly(c, n) == [c EXCEPT !.cache = MapDelete(c.cache, c.node[n].key)]

GetAllSweep(c, n) ==
    removeNode([c EXCEPT !.cache = MapDelete(c.cache, c.node[n].key)], n)

\* a cancelled traversal that hands back what it had gathered
GetAllDone_Partial(c, keys, values) ==
    [c |-> c, err |-> ctxErr, keys |-> keys, values |-> values]

\* case <-ctx.Done(): the traversal stops and returns the context's error alone
GetAllDone(c, keys, values) ==
    [c |-> c, err |-> ctxErr, keys |-> <<>>, values |-> <<>>]

RECURSIVE GetAllLoop(_, _, _, _, _)
GetAllLoop(c, n, keys, values, budget) ==
    IF n = Nil THEN [c |-> c, err |-> OK, keys |-> keys, values |-> values]
    ELSE IF budget = 0 THEN GetAllDone(c, keys, values)
         ELSE LET next == c.node[n].next
              IN IF After(now, c.node[n].TTL)
                 THEN GetAllLoop(GetAllSweep(c, n), next, keys, values, budget - 1)
                 ELSE GetAllLoop(c, next, Append(keys, c.node[n].key),
                                 Append(values, c.node[n].value), budget - 1)

\* a GetAll that walks the list without looking at the size of the map
GetAllCall_NoEmptyCheck(c, ctx, doneAfter) ==
    IF ctx # "live" THEN [c |-> c, err |-> ctxErr, keys |-> <<>>, values |-> <<>>]
    ELSE GetAllLoop(c, c.head, <<>>, <<>>, doneAfter)

GetAllCall(c, ctx, doneAfter) ==
    IF ctx # "live" THEN [c |-> c, err |-> ctxErr, keys |-> <<>>, values |-> <<>>]
    ELSE IF Cardinality(DOMAIN c.cache) = 0
         THEN [c |-> c, err |-> errEmptyCache, keys |-> <<>>, values |-> <<>>]
         ELSE GetAllLoop(c, c.head, <<>>, <<>>, doneAfter)

(***************************************************************************)
(* Evict and EvictAll.                                                     *)
(***************************************************************************)
EvictCall(c, ctx, key) ==
    IF ctx # "live" THEN [c |-> c, err |-> ctxErr, value |-> NoValue]
    ELSE IF key = "" THEN [c |-> c, err |-> errEmptyKey, value |-> NoValue]
    ELSE IF key \notin DOMAIN c.cache
         THEN [c |-> c, err |-> errKeyNotFound, value |-> NoValue]
    ELSE IF c.cache[key] = Nil THEN [c |-> c, err |-> errNilNode, value |-> NoValue]
    ELSE [c |-> removeNode([c EXCEPT !.cache = MapDelete(c.cache, key)], c.cache[key]),
          err |-> OK, value |-> c.node[c.cache[key]].value]

\* an EvictAll that empties the map and leaves head and tail where they were
EvictAllCall_KeepsList(c, ctx) ==
    IF ctx # "live" THEN [c |-> c, err |-> ctxErr]
    ELSE IF Cardinality(DOMAIN c.cache) = 0 THEN [c |-> c, err |-> errEmptyCache]
    ELSE [c |-> [c EXCEPT !.cache = <<>>], err |-> OK]

EvictAllCall(c, ctx) ==
    IF ctx # "live" THEN [c |-> c, err |-> ctxErr]
    ELSE IF Cardinality(DOMAIN c.cache) = 0 THEN [c |-> c, err |-> errEmptyCache]
    ELSE [c |-> [c EXCEPT !.cache = <<>>, !.head = Nil, !.tail = Nil], err |-> OK]

(***************************************************************************)
(* Which of c.mutex.Lock() and c.mutex.RLock() a call reaches: "none" when *)
(* it returns before.                                                      *)
(***************************************************************************)
CallOps == {"Put", "Get", "GetAll", "Evict", "EvictAll"}

\* a Put that takes the read lock
PutLock_Shared(ctx, key, ttl) ==
    IF ctx # "live" \/ key = "" \/ ttl < 0 THEN "none" ELSE "RLock"

PutLock(ctx, key, ttl) ==
    IF ctx # "live" \/ key = "" \/ ttl < 0 THEN "none" ELSE "Lock"

GetLock(ctx, key) == IF ctx # "live" \/ key = "" THEN "none" ELSE "RLock"

GetAllLock(ctx) == IF ctx # "live" THEN "none" ELSE "RLock"

EvictLock(ctx, key) == IF ctx # "live" \/ key = "" THEN "none" ELSE "Lock"

EvictAllLock(ctx) == IF ctx # "live" THEN "none" ELSE "Lock"

(***************************************************************************)
(* The record of the last call: its arguments, everything it returned and  *)
(* the path it took ("swept": a GetAll that unlinked at least one Node).   *)
(* doneAfter is, for a GetAll whose ctx.Done() is closed while it walks    *)
(* the list, the number of nodes it had visited by then; Never otherwise.  *)
(* lock is the call of c.mutex the call made: "Lock", "RLock" or "none".   *)
(***************************************************************************)
Never == -1

(***************************************************************************)
(* The HTTP handlers of the server.  w is the status of the response so    *)
(* far: the first WriteHeader of a response sets it and the later ones are *)
(* ignored; http.Error writes the header with its code.  Each handler's    *)
(* status is what its statements leave, given the error the cache returned.*)
(***************************************************************************)
NoStatus == 0
StatusOK == 200
StatusCreated == 201
StatusNoContent == 204
StatusBadRequest == 400
StatusNotFound == 404
StatusInternalServerError == 500

WriteHeader(w, code) == IF w = NoStatus THEN code ELSE w

Error(w, code) == WriteHeader(w, code)

CreateLRUStatus(err) ==
    WriteHeader(IF err # OK THEN Error(NoStatus, StatusBadRequest) ELSE NoStatus,
                StatusCreated)

GetLRUStatus(err) ==
    WriteHeader(IF err # OK THEN Error(NoStatus, StatusNotFound) ELSE NoStatus,
                StatusOK)

GetAllLRUStatus(err) ==
    WriteHeader(IF err # OK THEN Error(NoStatus, StatusNoContent) ELSE NoStatus,
                StatusOK)

DeleteLRUStatus(err) ==
    WriteHeader(IF err # OK THEN Error(NoStatus, StatusNotFound) ELSE NoStatus,
                StatusNoContent)

DeleteAllLRUStatus(err) ==
    WriteHeader(IF err # OK THEN Error(NoStatus, StatusInternalServerError)
                ELSE NoStatus,
                StatusNoContent)

Handlers ==
    {"CreateLRUHandler", "GetLRUHandler", "GetAllLRUHandler", "DeleteLRUHandler",
     "DeleteAllLRUHandler"}

StatusOf(h, err) ==
    CASE h = "CreateLRUHandler" -> CreateLRUStatus(err)
      [] h = "GetLRUHandler" -> GetLRUStatus(err)
      [] h = "GetAllLRUHandler" -> GetAllLRUStatus(err)
      [] h = "DeleteLRUHandler" -> DeleteLRUStatus(err)
      [] h = "DeleteAllLRUHandler" -> DeleteAllLRUStatus(err)

\* the record of a call as handler h has answered it; "none": called directly
Seen(h, l) ==
    IF h = "none" THEN l
    ELSE [l EXCEPT !.handler = h, !.status = StatusOf(h, l.err)]

Call(op, ctx, key, value, ttl, err, path, rvalue, rexp, rkeys, rvalues) ==
    [op |-> op, ctx |-> ctx, key |-> key, value |-> value, ttl |-> ttl,
     err |-> err, path |-> path, rvalue |-> rvalue, rexp |-> rexp,
     rkeys |-> rkeys, rvalues |-> rvalues, doneAfter |-> Never, lock |-> "none",
     handler |-> "none", status |-> NoStatus]

NoCall(op) ==
    Call(op, "live", "", NoValue, 0, OK, "none", NoValue, ZeroTime, <<>>, <<>>)

(***************************************************************************)
(* The struct after a call: c with the unreachable Nodes collected.        *)
(***************************************************************************)
Becomes(c) ==
    \E d \in {IF c = Self THEN c ELSE Canon(Collect(c))} :
       /\ head' = d.head
       /\ tail' = d.tail
       /\ cache' = d.cache
       /\ node' = d.node
       /\ UNCHANGED <<capacity, defaultTTL, now, mutex, goroutine, fatal>>

(***************************************************************************)
(* History: stores lists, most recent first, the last successful Put of    *)
(* each key with the value it stored.  fresh maps a key to the expiry its  *)
(* last Put gave it, for the keys put and since then neither removed by    *)
(* Evict or EvictAll, nor named by the tail that a full Put dropped, nor   *)
(* passed by the clock.                                                    *)
(***************************************************************************)
StoredKeys == {stores[i].key : i \in DOMAIN stores}
Without(s, key) == SelectSeq(s, LAMBDA r : r.key # key)
Forget(f, ks) == [k \in DOMAIN f \ ks |-> f[k]]
PutDrops(c, key) ==
    IF key \notin DOMAIN c.cache /\ PutFull(c) /\ c.tail # Nil
    THEN {c.node[c.tail].key} ELSE {}

(***************************************************************************)
(* The goroutines that call the cache in SpecThreads.  A goroutine is idle *)
(* or runs one method: pc is where it stands ("Lock": about to call        *)
(* c.mutex.Lock() or c.mutex.RLock()), and found, n (node), now, keys and  *)
(* values are the method's local variables.                                *)
(***************************************************************************)
Threads == {"g1", "g2"}
NoThread == "none"
GoValues == {"v1"}          \* the payloads goroutines store
GoTTLs == {0}               \* the ttl arguments goroutines pass

Idle ==
    [pc |-> "idle", op |-> "none", key |-> "", value |-> NoValue, ttl |-> 0,
     found |-> FALSE, n |-> Nil, now |-> 0, keys |-> <<>>, values |-> <<>>]

(***************************************************************************)
(* sync.RWMutex: one writer, or any number of readers.                     *)
(***************************************************************************)
Unlocked == [writer |-> NoThread, readers |-> {}]

CanLock(m, mode) ==
    IF mode = "Lock" THEN m.writer = NoThread /\ m.readers = {}
    ELSE m.writer = NoThread

Locked(m, g, mode) ==
    IF mode = "Lock" THEN [m EXCEPT !.writer = g]
    ELSE [m EXCEPT !.readers = @ \cup {g}]

\* the deferred c.mutex.Unlock() or c.mutex.RUnlock() of goroutine g
Unlock(m, g) ==
    [writer |-> IF m.writer = g THEN NoThread ELSE m.writer,
     readers |-> m.readers \ {g}]

Init ==
    /\ head = Nil
    /\ tail = Nil
    /\ cache = <<>>
    /\ node = <<>>
    /\ capacity \in Capacities
    /\ defaultTTL \in DefaultTTLs
    /\ now = 0
    /\ last = NoCall("New")
    /\ stores = <<>>
    /\ fresh = <<>>
    /\ mutex = Unlocked
    /\ goroutine = [g \in Threads |-> Idle]
    /\ fatal = FALSE

(***************************************************************************)
(* One call of each method, its arguments drawn from the given sets; r is  *)
(* what the call returns and leaves.                                       *)
(***************************************************************************)
PutVia(h, ctxs, keys, ttls) ==
    \E ctx \in ctxs, key \in keys, value \in Values, ttl \in ttls :
        /\ PutFits(Self, ctx, key, ttl)
        /\ \E r \in {PutCall(Self, ctx, key, value, ttl)} :
              /\ Becomes(r.c)
              /\ last' = Seen(h, [Call("Put", ctx, key, value, ttl, r.err, r.path,
                                       NoValue, ZeroTime, <<>>, <<>>)
                                    EXCEPT !.lock = PutLock(ctx, key, ttl)])
              /\ IF r.err = OK
                 THEN /\ stores' = <<[key |-> key, value |-> value]>>
                                   \o Without(stores, key)
                      /\ fresh' = MapPut(Forget(fresh, PutDrops(Self, key)),
                                         key, now + getTTL(ttl))
                 ELSE UNCHANGED <<stores, fresh>>

PutWith(ctxs, keys, ttls) == PutVia("none", ctxs, keys, ttls)

GetVia(h, ctxs, keys) ==
    \E ctx \in ctxs, key \in keys :
        \E r \in {GetCall(Self, ctx, key)} :
           /\ Becomes(r.c)
           /\ last' = Seen(h, [Call("Get", ctx, key, NoValue, 0, r.err, "none",
                                    r.value, r.expiresAt, <<>>, <<>>)
                                 EXCEPT !.lock = GetLock(ctx, key)])
           /\ UNCHANGED <<stores, fresh>>

GetWith(ctxs, keys) == GetVia("none", ctxs, keys)

\* whether the call gets as far as the traversal
GetAllWalks(c, ctx) == ctx = "live" /\ Cardinality(DOMAIN c.cache) # 0

GetAllVia(h, ctxs) ==
    \E ctx \in ctxs, doneAfter \in 0..Len(List) :
        \E r \in {GetAllCall(Self, ctx, doneAfter)} :
           /\ Becomes(r.c)
           /\ last' = Seen(h,
                  [Call("GetAll", ctx, "", NoValue, 0, r.err,
                        IF Len(ListOf(r.c)) < Len(List) THEN "swept" ELSE "none",
                        NoValue, ZeroTime, r.keys, r.values)
                     EXCEPT !.doneAfter =
                                IF GetAllWalks(Self, ctx) /\ doneAfter < Len(List)
                                THEN doneAfter ELSE Never,
                            !.lock = GetAllLock(ctx)])
           /\ UNCHANGED <<stores, fresh>>

GetAllWith(ctxs) == GetAllVia("none", ctxs)

EvictVia(h, ctxs, keys) ==
    \E ctx \in ctxs, key \in keys :
        \E r \in {EvictCall(Self, ctx, key)} :
           /\ Becomes(r.c)
           /\ last' = Seen(h, [Call("Evict", ctx, key, NoValue, 0, r.err, "none",
                                    r.value, ZeroTime, <<>>, <<>>)
                                 EXCEPT !.lock = EvictLock(ctx, key)])
           /\ fresh' = IF r.err = OK THEN Forget(fresh, {key}) ELSE fresh
           /\ UNCHANGED stores

EvictWith(ctxs, keys) == EvictVia("none", ctxs, keys)

EvictAllVia(h, ctxs) ==
    \E ctx \in ctxs :
        \E r \in {EvictAllCall(Self, ctx)} :
           /\ Becomes(r.c)
           /\ last' = Seen(h, [Call("EvictAll", ctx, "", NoValue, 0, r.err, "none",
                                    NoValue, ZeroTime, <<>>, <<>>)
                                 EXCEPT !.lock = EvictAllLock(ctx)])
           /\ fresh' = IF r.err = OK THEN <<>> ELSE fresh
           /\ UNCHANGED stores

EvictAllWith(ctxs) == EvictAllVia("none", ctxs)

(***************************************************************************)
(* The host clock moves on between calls.                                  *)
(***************************************************************************)
Tick ==
    /\ now < MaxTime
    /\ now' = now + 1
    /\ last' = NoCall("Tick")
    /\ fresh' = Forget(fresh, {k \in DOMAIN fresh : After(now', fresh[k])})
    /\ UNCHANGED <<head, tail, cache, node, capacity, defaultTTL, stores,
                   mutex, goroutine, fatal>>

(***************************************************************************)
(* Spec: callers with live contexts and valid arguments make every kind of *)
(* call, one at a time, while the clock advances.                          *)
(***************************************************************************)
Put == PutWith({"live"}, Keys, TTLs)
Get == GetWith({"live"}, Keys)
GetAll == GetAllWith({"live"})
Evict == EvictWith({"live"}, Keys)
EvictAll == EvictAllWith({"live"})

Next == Put \/ Get \/ GetAll \/ Evict \/ EvictAll \/ Tick

Spec == Init /\ [][Next]_vars

(***************************************************************************)
(* SpecStores: runs of Put alone, over three keys.                         *)
(* SpecDistinctStores: runs of Put alone in which no key is put twice.     *)
(***************************************************************************)
Store == PutWith({"live"}, MoreKeys, TTLs)

NextStores == Store \/ Tick

SpecStores == Init /\ [][NextStores]_vars

StoreNew == PutWith({"live"}, MoreKeys \ StoredKeys, TTLs)

NextDistinctStores == StoreNew \/ Tick

SpecDistinctStores == Init /\ [][NextDistinctStores]_vars

(***************************************************************************)
(* SpecAnyArgs: callers also pass contexts that are already cancelled (or  *)
(* past their deadline), the empty key and a negative ttl.                 *)
(***************************************************************************)
Contexts == {"live", "cancelled"}
ArgKeys == {"a", ""}
ArgTTLs == {0, 1, -1}

PutAny == PutWith(Contexts, ArgKeys, ArgTTLs)
GetAny == GetWith(Contexts, ArgKeys)
GetAllAny == GetAllWith(Contexts)
EvictAny == EvictWith(Contexts, ArgKeys)
EvictAllAny == EvictAllWith(Contexts)

NextAnyArgs == PutAny \/ GetAny \/ GetAllAny \/ EvictAny \/ EvictAllAny \/ Tick

SpecAnyArgs == Init /\ [][NextAnyArgs]_vars

(***************************************************************************)
(* SpecHTTP: the cache behind the HTTP handlers, one request at a time.    *)
(* A request's context is never cancelled ("live"), cancelled before the   *)
(* handler's select on ctx.Done() ("cancelled"), or cancelled after that   *)
(* select and before the cache looks at it ("late").  The body of a POST   *)
(* does not decode, or decodes to a key (possibly empty), a value and      *)
(* ttl_seconds (absent or 0, or negative); the router hands the other      *)
(* handlers a non-empty key.  The unit of the clock is the second.         *)
(***************************************************************************)
Requests == {"live", "cancelled", "late"}
BodyKeys == {"a", "b", ""}
BodyTTLs == {0, -1}

\* the context as the cache finds it
AtCache(rctx) == IF rctx = "live" THEN "live" ELSE "cancelled"

\* handler h answers with code before it calls the cache
Answers(h, ctx, path, code) ==
    /\ last' = [NoCall("none") EXCEPT !.handler = h, !.ctx = ctx, !.path = path,
                                      !.status = Error(NoStatus, code)]
    /\ UNCHANGED <<head, tail, cache, node, capacity, defaultTTL, now, stores,
                   fresh, mutex, goroutine, fatal>>

\* case <-ctx.Done(): http.Error(w, "request cancelled", 500); return
Cancelled(h) == Answers(h, "cancelled", "none", StatusInternalServerError)

CreateLRUHandler ==
    \/ Cancelled("CreateLRUHandler")
    \/ Answers("CreateLRUHandler", "live", "invalid body", StatusBadRequest)
    \/ \E rctx \in Requests \ {"cancelled"} :
          PutVia("CreateLRUHandler", {AtCache(rctx)}, BodyKeys, BodyTTLs)

GetLRUHandler ==
    \/ Cancelled("GetLRUHandler")
    \/ \E rctx \in Requests \ {"cancelled"} :
          GetVia("GetLRUHandler", {AtCache(rctx)}, Keys)

GetAllLRUHandler ==
    \/ Cancelled("GetAllLRUHandler")
    \/ \E rctx \in Requests \ {"cancelled"} :
          GetAllVia("GetAllLRUHandler", {AtCache(rctx)})

DeleteLRUHandler ==
    \/ Cancelled("DeleteLRUHandler")
    \/ \E rctx \in Requests \ {"cancelled"} :
          EvictVia("DeleteLRUHandler", {AtCache(rctx)}, Keys)

DeleteAllLRUHandler ==
    \/ Cancelled("DeleteAllLRUHandler")
    \/ \E rctx \in Requests \ {"cancelled"} :
          EvictAllVia("DeleteAllLRUHandler", {AtCache(rctx)})

NextHTTP ==
    \/ CreateLRUHandler
    \/ GetLRUHandler
    \/ GetAllLRUHandler
    \/ DeleteLRUHandler
    \/ DeleteAllLRUHandler
    \/ Tick

SpecHTTP == Init /\ [][NextHTTP]_vars

(***************************************************************************)
(* SpecThreads: goroutines with live contexts and valid arguments call the *)
(* methods concurrently.  A step is one statement (or one run of           *)
(* statements that touch no shared variable) of one goroutine; the         *)
(* deferred unlock is taken with the step that returns.                    *)
(***************************************************************************)
\* the lock the method that goroutine record r runs is about to take
LockOf(r) ==
    CASE r.op = "Put" -> PutLock("live", r.key, r.ttl)
      [] r.op = "Get" -> GetLock("live", r.key)
      [] r.op = "GetAll" -> GetAllLock("live")
      [] r.op = "Evict" -> EvictLock("live", r.key)
      [] r.op = "EvictAll" -> EvictAllLock("live")

\* the first statement under the lock
FirstPc(op) ==
    CASE op = "Put" -> "PutLookup"
      [] op = "Get" -> "GetLookup"
      [] op = "GetAll" -> "GetAllStart"
      [] op = "Evict" -> "EvictBody"
      [] op = "EvictAll" -> "EvictAllBody"

\* the live Nodes, renumbered: list order first, then the others
Order(c) == ListOf(c) \o Ascending(DOMAIN c.node \ SeqSet(ListOf(c)))

Renamed(c, n) ==
    IF n = Nil THEN Nil ELSE CHOOSE i \in DOMAIN Order(c) : Order(c)[i] = n

\* the Nodes that survive when the goroutines gs point to Nodes as well
CollectWith(c, gs) ==
    LET roots == {c.head, c.tail} \cup Range(c.cache) \cup {gs[g].n : g \in Threads}
    IN [c EXCEPT !.node = [n \in Closure(c, roots \ {Nil}, MaxNodes) |-> c.node[n]]]

\* the step leaves the struct c and the goroutines gs
Leaves(c, gs) ==
    \E d \in {CollectWith(c, gs)} : \E e \in {Canon(d)} :
       /\ head' = e.head
       /\ tail' = e.tail
       /\ cache' = e.cache
       /\ node' = e.node
       /\ goroutine' = [g \in Threads |-> [gs[g] EXCEPT !.n = Renamed(d, @)]]
       /\ UNCHANGED <<capacity, defaultTTL, now, last, stores, fresh, fatal>>

\* goroutine g returns: its locals are gone and its deferred unlock runs
Returns(c, g) ==
    /\ Leaves(c, [goroutine EXCEPT ![g] = Idle])
    /\ mutex' = Unlock(mutex, g)

\* goroutine g goes on under the lock, as record r
GoesOn(c, g, r) ==
    /\ Leaves(c, [goroutine EXCEPT ![g] = r])
    /\ UNCHANGED mutex

\* the runtime throws "concurrent map read and map write": the process is gone
Throws ==
    /\ fatal' = TRUE
    /\ UNCHANGED <<head, tail, cache, node, capacity, defaultTTL, now, last,
                   stores, fresh, mutex, goroutine>>

Running(g) == ~fatal /\ goroutine[g].n \in DOMAIN node \cup {Nil}

\* the next statement of goroutine h reads or writes the map c.cache
AtMap(h) ==
    LET r == goroutine[h]
    IN \/ r.pc \in {"PutLookup", "GetLookup"}
       \/ r.pc = "GetCheck" /\ r.found /\ After(now, node[r.n].TTL)
       \/ r.pc = "GetAllVisit" /\ r.n # Nil /\ After(r.now, node[r.n].TTL)
       \/ r.pc \in {"PutWrite", "EvictBody", "EvictAllBody"}

\* goroutine g writes the map while it holds the read lock only and another
\* goroutine under the lock is at the map: a data race on c.cache
MapRace(g) ==
    /\ mutex.writer # g
    /\ \E h \in Threads \ {g} : goroutine[h].pc \notin {"idle", "Lock"} /\ AtMap(h)

GoCall(g) ==
    /\ Running(g)
    /\ goroutine[g].pc = "idle"
    /\ \E op \in CallOps, key \in Keys, value \in GoValues, ttl \in GoTTLs :
          goroutine' = [goroutine EXCEPT ![g] =
              [Idle EXCEPT !.pc = "Lock", !.op = op,
                           !.key = IF op \in {"Put", "Get", "Evict"} THEN key ELSE "",
                           !.value = IF op = "Put" THEN value ELSE NoValue,
                           !.ttl = IF op = "Put" THEN ttl ELSE 0]]
    /\ UNCHANGED <<head, tail, cache, node, capacity, defaultTTL, now, last,
                   stores, fresh, mutex, fatal>>

\* c.mutex.Lock() or c.mutex.RLock() returns
Acquire(g) ==
    LET r == goroutine[g]
    IN /\ Running(g)
       /\ r.pc = "Lock"
       /\ CanLock(mutex, LockOf(r))
       /\ r.op = "Put" => PutFits(Self, "live", r.key, r.ttl)
       /\ mutex' = Locked(mutex, g, LockOf(r))
       /\ goroutine' = [goroutine EXCEPT ![g].pc = FirstPc(r.op)]
       /\ UNCHANGED <<head, tail, cache, node, capacity, defaultTTL, now, last,
                      stores, fresh, fatal>>

\* node, found := c.cache[key]
Lookup(g, pc, then) ==
    LET r == goroutine[g]
    IN /\ Running(g)
       /\ r.pc = pc
       /\ goroutine' = [goroutine EXCEPT ![g] =
              [r EXCEPT !.pc = then,
                        !.found = r.key \in DOMAIN cache,
                        !.n = IF r.key \in DOMAIN cache THEN cache[r.key] ELSE Nil]]
       /\ UNCHANGED <<head, tail, cache, node, capacity, defaultTTL, now, last,
                      stores, fresh, mutex, fatal>>

PutLookup(g) == Lookup(g, "PutLookup", "PutWrite")

\* the rest of Put: the found branch, or eviction and insertion
PutWrite(g) ==
    LET r == goroutine[g]
    IN /\ Running(g)
       /\ r.pc = "PutWrite"
       /\ r.found \/ PutFits(Self, "live", r.key, r.ttl)
       /\ Returns(IF r.found THEN PutUpdateNode(Self, r.n, r.value, r.ttl).c
                  ELSE PutAbsent(Self, r.key, r.value, r.ttl).c, g)

GetLookup(g) == Lookup(g, "GetLookup", "GetCheck")

\* the rest of Get: an expired key is deleted from the map
GetCheck(g) ==
    LET r == goroutine[g]
    IN /\ Running(g)
       /\ r.pc = "GetCheck"
       /\ IF r.found /\ After(now, node[r.n].TTL)
          THEN \/ Returns(GetExpired(Self, r.key).c, g)
               \/ MapRace(g) /\ Throws
          ELSE Returns(Self, g)

\* len(c.cache) == 0, now := time.Now() and node := c.head
GetAllStart(g) ==
    LET r == goroutine[g]
    IN /\ Running(g)
       /\ r.pc = "GetAllStart"
       /\ IF Cardinality(DOMAIN cache) = 0 THEN Returns(Self, g)
          ELSE GoesOn(Self, g, [r EXCEPT !.pc = "GetAllVisit", !.n = head,
                                         !.now = now])

\* one turn of the loop of GetAll
GetAllVisit(g) ==
    LET r == goroutine[g]
    IN /\ Running(g)
       /\ r.pc = "GetAllVisit"
       /\ IF r.n = Nil THEN Returns(Self, g)
          ELSE \/ Returns(GetAllDone(Self, r.keys, r.values).c, g)
               \/ IF After(r.now, node[r.n].TTL)
                  THEN \/ GoesOn(GetAllSweep(Self, r.n), g,
                                 [r EXCEPT !.n = node[r.n].next])
                       \/ MapRace(g) /\ Throws
                  ELSE GoesOn(Self, g,
                              [r EXCEPT !.n = node[r.n].next,
                                        !.keys = Append(@, node[r.n].key),
                                        !.values = Append(@, node[r.n].value)])

EvictBody(g) ==
    /\ Running(g)
    /\ goroutine[g].pc = "EvictBody"
    /\ Returns(EvictCall(Self, "live", goroutine[g].key).c, g)

EvictAllBody(g) ==
    /\ Running(g)
    /\ goroutine[g].pc = "EvictAllBody"
    /\ Returns(EvictAllCall(Self, "live").c, g)

Step(g) ==
    \/ GoCall(g) \/ Acquire(g)
    \/ PutLookup(g) \/ PutWrite(g)
    \/ GetLookup(g) \/ GetCheck(g)
    \/ GetAllStart(g) \/ GetAllVisit(g)
    \/ EvictBody(g) \/ EvictAllBody(g)

NextThreads == (\E g \in Threads : Step(g)) \/ (~fatal /\ Tick)

SpecThreads == Init /\ [][NextThreads]_vars

\* a statement of the method goroutine g runs under the lock
Body(g) ==
    \/ PutLookup(g) \/ PutWrite(g)
    \/ GetLookup(g) \/ GetCheck(g)
    \/ GetAllStart(g) \/ GetAllVisit(g)
    \/ EvictBody(g) \/ EvictAllBody(g)

(***************************************************************************)
(* What the claims speak of.                                               *)
(***************************************************************************)
Index == DOMAIN cache

EntryIn(nodes, n) ==
    [key |-> nodes[n].key, value |-> nodes[n].value, TTL |-> nodes[n].TTL]

Entry(n) == EntryIn(node, n)

\* the entries of the recency list, head first
Entries == [i \in DOMAIN List |-> Entry(List[i])]

Expired(n) == After(now, node[n].TTL)

\* where key k stands in the order of last successful Puts (1 = most recent)
StoreRank(k) == CHOOSE i \in DOMAIN stores : stores[i].key = k

LastStored(k) == stores[StoreRank(k)].value

\* the indexed key whose last Put is the oldest
OldestIndexed == CHOOSE k \in Index : \A j \in Index : StoreRank(j) <= StoreRank(k)

(***************************************************************************)
(* C1: with capacity >= 1, the index never holds more than capacity keys.  *)
(***************************************************************************)
C1_IndexWithinCapacity == Cardinality(Index) <= capacity

(***************************************************************************)
(* C2: after every call the index has as many keys as the list has nodes,  *)
(* and the keys of the index are the keys of the nodes of the list.        *)
(***************************************************************************)
C2_IndexMatchesList ==
    /\ Cardinality(Index) = Len(List)
    /\ Index = {node[List[i]].key : i \in DOMAIN List}

(***************************************************************************)
(* Steps of the calls the claims are about: the step is a call of Put      *)
(* that succeeded, told by the record it leaves.                           *)
(***************************************************************************)
PutStep == last'.op = "Put" /\ last'.err = OK

\* a successful Put of a key absent from an index that holds capacity keys or more
OverflowStep == PutStep /\ last'.key \notin Index /\ Cardinality(Index) >= capacity

(***************************************************************************)
(* C3: in a run of Puts with pairwise distinct keys, each Put that finds   *)
(* the cache full removes from the index exactly the key put earliest      *)
(* among those still indexed, and adds its own.                            *)
(***************************************************************************)
C3_OverflowEvictsEarliest ==
    [][OverflowStep => Index' = (Index \ {OldestIndexed}) \cup {last'.key}]_vars

\* capacity 2, three distinct keys put: the first is gone, the last two remain
C3_Witness ==
    /\ capacity = 2
    /\ Len(stores) = 3
    /\ last.op = "Put" /\ last.path = "evict"
    /\ Index = {stores[1].key, stores[2].key}

(***************************************************************************)
(* C4: in any reachable state, a Put of a key absent from an index that    *)
(* holds capacity keys removes exactly one key from the index, the indexed *)
(* key whose last Put is the oldest, and keeps every other indexed key.    *)
(***************************************************************************)
C4_FullStoreEvictsOldest ==
    [][(OverflowStep /\ Cardinality(Index) = capacity)
         => Index' = (Index \ {OldestIndexed}) \cup {last'.key}]_vars

(***************************************************************************)
(* C5: a successful Put of a key already in the index keeps the number of  *)
(* indexed keys, gives the entry the new value and the expiry now + the    *)
(* effective ttl, makes it the head of the list, and changes no other      *)
(* entry's value, expiry or place relative to the others.                  *)
(***************************************************************************)
EffectiveTTL(ttl) == IF ttl = 0 THEN defaultTTL ELSE ttl

\* sequence s without its i-th element
Drop(s, i) == [j \in 1..(Len(s) - 1) |-> IF j < i THEN s[j] ELSE s[j + 1]]

ListPlace(n) == CHOOSE i \in DOMAIN List : List[i] = n

C5_UpdateMovesToHead ==
    [][(PutStep /\ last'.key \in Index) =>
        LET k == last'.key
            written == [key |-> k, value |-> last'.value,
                        TTL |-> now + EffectiveTTL(last'.ttl)]
        IN /\ Index' = Index
           /\ head' = cache'[k]
           /\ EntryIn(node', cache'[k]) = written
           /\ Entries' = <<written>> \o Drop(Entries, ListPlace(cache[k]))
           /\ \A j \in Index \ {k} :
                  EntryIn(node', cache'[j]) = Entry(cache[j])]_vars

\* an update that took a node from behind another one to the head
C5_Witness ==
    /\ last.op = "Put" /\ last.path = "update"
    /\ Len(List) >= 2
    /\ node[head].value = "v2"
    /\ node[head].TTL > node[List[2]].TTL

(***************************************************************************)
(* C6: starting from the empty cache, after Puts alone, as long as the     *)
(* number of distinct keys put is at most capacity, the index holds as     *)
(* many keys as distinct keys were put.                                    *)
(***************************************************************************)
C6_OccupancyIsDistinctKeys ==
    Cardinality(StoredKeys) <= capacity => Cardinality(Index) = Cardinality(StoredKeys)

\* two distinct keys in a cache of capacity 2, the last Put a repeat
C6_Witness ==
    /\ capacity = 2
    /\ Cardinality(StoredKeys) = 2
    /\ last.op = "Put" /\ last.path = "update"
    /\ Cardinality(Index) = 2

(***************************************************************************)
(* C7: a Get of a key whose last Put has been followed by no Evict of the  *)
(* key, no EvictAll and no capacity eviction of the key, made while the    *)
(* clock is not past the expiry that Put gave, returns the value of that   *)
(* Put and an expiry that is not before the current time.                  *)
(***************************************************************************)
GetStep == last'.op = "Get"

C7_GetReturnsLastPut ==
    [][(GetStep /\ last'.key \in DOMAIN fresh) =>
        /\ last'.err = OK
        /\ last'.rvalue = LastStored(last'.key)
        /\ last'.rexp >= now]_vars

(***************************************************************************)
(* C8: a Get of an indexed key whose expiry the clock has strictly passed  *)
(* fails with key expired and takes the key out of the index; from then    *)
(* on, until a Put of that key, every Get of it fails with key not found:  *)
(* the call right after says so, a key outside the index enters it only by *)
(* a successful Put of that key, and a Get of a key outside the index      *)
(* fails with key not found.                                               *)
(***************************************************************************)
C8_ExpiredGetRemovesKey ==
    [][/\ (GetStep /\ last'.key \in Index /\ Expired(cache[last'.key]))
            => (last'.err = errExpiredKey /\ last'.key \notin Index')
       /\ (GetStep /\ last.op = "Get" /\ last.err = errExpiredKey
             /\ last'.key = last.key)
            => last'.err = errKeyNotFound
       /\ \A k \in Index' \ Index : PutStep /\ last'.key = k
       /\ (GetStep /\ last'.key \notin Index)
            => (last'.err = errKeyNotFound /\ Index' = Index)]_vars

\* the Get that found the key expired has returned and the key is out of the index
C8_Witness ==
    /\ last.op = "Get" /\ last.err = errExpiredKey
    /\ last.key \notin Index
    /\ now > 0

(***************************************************************************)
(* C9: a successful GetAll visits every node of the list: the nodes        *)
(* expired at the time of the call leave the list and their keys leave the *)
(* index, and the others, in list order, give the keys and values          *)
(* returned and are the list afterwards.                                   *)
(***************************************************************************)
GetAllStep == last'.op = "GetAll"

Unexpired == SelectSeq(List, LAMBDA n : ~Expired(n))

C9_GetAllSweepsExpired ==
    [][(GetAllStep /\ last'.err = OK) =>
        /\ last'.rkeys = [i \in DOMAIN Unexpired |-> node[Unexpired[i]].key]
        /\ last'.rvalues = [i \in DOMAIN Unexpired |-> node[Unexpired[i]].value]
        /\ Entries' = [i \in DOMAIN Unexpired |-> Entry(Unexpired[i])]
        /\ \A i \in DOMAIN List :
              Expired(List[i]) => node[List[i]].key \notin Index']_vars

\* one key returned, one expired node swept: the list is left with the one node
C9_Witness ==
    /\ last.op = "GetAll" /\ last.err = OK /\ last.path = "swept"
    /\ Len(last.rkeys) = 1
    /\ Len(List) = 1
    /\ node[head].key = last.rkeys[1]

(***************************************************************************)
(* C10: the keys a successful GetAll returns are pairwise distinct and in  *)
(* the order of their last successful Put, most recent first, and the i-th *)
(* value is the value last put for the i-th key.                           *)
(***************************************************************************)
C10_GetAllDistinctOrdered ==
    (last.op = "GetAll" /\ last.err = OK) =>
        /\ \A i, j \in DOMAIN last.rkeys :
              i < j => /\ last.rkeys[i] # last.rkeys[j]
                       /\ StoreRank(last.rkeys[i]) < StoreRank(last.rkeys[j])
        /\ \A i \in DOMAIN last.rkeys :
              last.rvalues[i] = LastStored(last.rkeys[i])

(***************************************************************************)
(* C11: a successful EvictAll leaves the index empty and head and tail     *)
(* nil; a Get made right after it, of whatever key, fails with key not     *)
(* found, and a GetAll made right after it fails with cache is empty.      *)
(***************************************************************************)
EvictAllStep == last'.op = "EvictAll"

AfterEvictAll == last.op = "EvictAll" /\ last.err = OK

C11_EvictAllClears ==
    [][/\ (EvictAllStep /\ last'.err = OK)
            => (Index' = {} /\ head' = Nil /\ tail' = Nil /\ List' = <<>>)
       /\ (AfterEvictAll /\ GetStep) => last'.err = errKeyNotFound
       /\ (AfterEvictAll /\ GetAllStep)
            => (last'.err = errEmptyCache /\ last'.rkeys = <<>>
                  /\ last'.rvalues = <<>>)]_vars

\* an EvictAll has cleared a cache in which two keys had been put
C11_Witness ==
    /\ AfterEvictAll
    /\ Cardinality(StoredKeys) = 2
    /\ Index = {} /\ head = Nil /\ tail = Nil

(***************************************************************************)
(* C12: an Evict of an indexed key succeeds and returns the value of the   *)
(* last successful Put of that key; afterwards the key is in the index no  *)
(* more and no node of the list carries it; an Evict of the same key made  *)
(* right after it fails with key not found.                                *)
(***************************************************************************)
EvictStep == last'.op = "Evict"

ListKeys == {node[List[i]].key : i \in DOMAIN List}

C12_EvictReturnsLastPut ==
    [][/\ (EvictStep /\ last'.key \in Index)
            => /\ last'.err = OK
               /\ last'.rvalue = LastStored(last'.key)
               /\ last'.key \notin Index'
               /\ last'.key \notin ListKeys'
       /\ (EvictStep /\ last.op = "Evict" /\ last.err = OK
             /\ last'.key = last.key)
            => last'.err = errKeyNotFound]_vars

(***************************************************************************)
(* C13: while the index is empty, every GetAll and every EvictAll fails    *)
(* with cache is empty and every Evict of a non-empty key fails with key   *)
(* not found, and these calls leave the index, the list, head and tail as  *)
(* they were.                                                              *)
(***************************************************************************)
C13_EmptyIndexFailures ==
    [][Index = {} =>
        /\ (GetAllStep \/ EvictAllStep)
             => (last'.err = errEmptyCache
                   /\ UNCHANGED <<head, tail, cache, node>>)
        /\ (EvictStep /\ last'.key # "")
             => (last'.err = errKeyNotFound
                   /\ UNCHANGED <<head, tail, cache, node>>)]_vars

\* GetAll has failed on an index that a Get emptied, the list still holding a node
C13_Witness ==
    /\ last.op = "GetAll" /\ last.err = errEmptyCache
    /\ Index = {}
    /\ head # Nil

(***************************************************************************)
(* C15: a GetAll whose context is live at the call and is cancelled after  *)
(* the traversal has visited d nodes, d less than the length of the list,  *)
(* returns the context's error with no keys and no values, for every d.    *)
(***************************************************************************)
C15_CancelledTraversal ==
    [][(GetAllStep /\ last'.ctx = "live" /\ Index # {}
          /\ last'.doneAfter # Never)
        => (last'.err = ctxErr /\ last'.rkeys = <<>> /\ last'.rvalues = <<>>)]_vars

\* cancelled after one node of two, an unexpired one, had been visited
C15_Witness ==
    /\ last.op = "GetAll" /\ last.ctx = "live" /\ last.err = ctxErr
    /\ last.doneAfter = 1
    /\ Len(List) = 2
    /\ ~Expired(head)
    /\ last.rkeys = <<>>

(***************************************************************************)
(* C17: a successful Put gives the entry the expiry now + defaultTTL when  *)
(* its ttl is 0 and now + ttl when its ttl is positive, and an entry put   *)
(* with ttl 0 does not expire immediately: at the instant that follows the *)
(* Put it is not expired.                                                  *)
(***************************************************************************)
C17_StoreExpiry ==
    [][PutStep =>
        LET expiresAt == node'[cache'[last'.key]].TTL
        IN /\ last'.ttl = 0 => expiresAt = now + defaultTTL
           /\ last'.ttl > 0 => expiresAt = now + last'.ttl
           /\ last'.ttl = 0 => ~After(now + 1, expiresAt)]_vars

(***************************************************************************)
(* C18: a successful Get changes nothing: head, tail, the index and every  *)
(* node (key, value, expiry and links, hence the order of the list) are    *)
(* after it what they were before, so the calls that follow run as if the  *)
(* Get had not been made.                                                  *)
(***************************************************************************)
C18_GetChangesNothing ==
    [][(GetStep /\ last'.err = OK)
        => (UNCHANGED <<head, tail, cache, node>> /\ Entries' = Entries)]_vars

\* the key at the tail of a list of two was read and is still at the tail
C18_Witness ==
    /\ last.op = "Get" /\ last.err = OK
    /\ Len(List) = 2
    /\ Index = ListKeys
    /\ node[tail].key = last.key
    /\ last.rvalue = node[tail].value

(***************************************************************************)
(* C14: a call of Put, Get, GetAll, Evict or EvictAll whose context is     *)
(* already cancelled or past its deadline returns the context's error,     *)
(* whatever its other arguments (the empty key and a negative ttl          *)
(* included), reaches neither c.mutex.Lock() nor c.mutex.RLock(), and      *)
(* leaves head, tail, the index and the nodes as they were.                *)
(***************************************************************************)
C14_CancelledContextFirst ==
    [][(last'.op \in CallOps /\ last'.ctx # "live")
        => /\ last'.err = ctxErr
           /\ last'.lock = "none"
           /\ UNCHANGED <<head, tail, cache, node>>]_vars

\* a Get with a cancelled context and the empty key, on a cache that holds a key
C14_Witness ==
    /\ last.op = "Get" /\ last.ctx = "cancelled" /\ last.key = ""
    /\ last.err = ctxErr
    /\ Index # {}

(***************************************************************************)
(* C16: with a live context, a Put with the empty key fails with key       *)
(* cannot be empty, whatever its ttl; a Put with a non-empty key and a     *)
(* negative ttl fails with ttl cannot be negative; a Get and an Evict with *)
(* the empty key fail with key cannot be empty; each of these calls leaves *)
(* head, tail, the index and the nodes as they were.                       *)
(***************************************************************************)
C16_ArgumentChecks ==
    [][last'.ctx = "live" =>
        /\ (last'.op = "Put" /\ last'.key = "")
             => (last'.err = errEmptyKey
                   /\ UNCHANGED <<head, tail, cache, node>>)
        /\ (last'.op = "Put" /\ last'.key # "" /\ last'.ttl < 0)
             => (last'.err = errNegativeTTL
                   /\ UNCHANGED <<head, tail, cache, node>>)
        /\ (last'.op \in {"Get", "Evict"} /\ last'.key = "")
             => (last'.err = errEmptyKey
                   /\ UNCHANGED <<head, tail, cache, node>>)]_vars

\* a Put with the empty key and a negative ttl, on a cache that holds a key
C16_Witness ==
    /\ last.op = "Put" /\ last.ctx = "live" /\ last.key = "" /\ last.ttl < 0
    /\ last.err = errEmptyKey
    /\ Index # {}

(***************************************************************************)
(* C19: whenever a goroutine running Get or GetAll takes an expired key    *)
(* out of the index or an expired node out of the list, it holds the mutex *)
(* as its writer, and no other goroutine is under the lock.                *)
(***************************************************************************)
UnderLock(g) == goroutine[g].pc \notin {"idle", "Lock"}

C19_DeletionsHoldWriteLock ==
    [][\A g \in Threads :
         ((GetCheck(g) \/ GetAllVisit(g))
            /\ (Index' # Index \/ Entries' # Entries))
          => (mutex.writer = g /\ \A h \in Threads \ {g} : ~UnderLock(h))]_vars

(***************************************************************************)
(* C20: while a goroutine is between the lookup and the end of Put, no     *)
(* other goroutine is under the lock, be it in Put, Get, GetAll, Evict or  *)
(* EvictAll; and the statements of a Put leave the cache that the whole    *)
(* Put, run at once on the cache it finds at its last step, would leave:   *)
(* the Puts take effect one after the other.                               *)
(***************************************************************************)
InPut(g) == goroutine[g].pc \in {"PutLookup", "PutWrite"}

C20_StoresExclusive ==
    [][/\ \A g \in Threads :
            InPut(g)' => \A h \in Threads \ {g} : ~UnderLock(h)'
       /\ \A g \in Threads :
            PutWrite(g) =>
              LET r == goroutine[g]
                  d == Canon(Collect(PutLocked(Self, r.key, r.value, r.ttl).c))
              IN /\ head' = d.head
                 /\ tail' = d.tail
                 /\ cache' = d.cache
                 /\ node' = d.node]_vars

\* one goroutine is about to write for a key it found in the map while the
\* other has called Put with the same key and waits for the mutex
C20_Witness ==
    \E g \in Threads, h \in Threads :
        /\ g # h
        /\ goroutine[g].pc = "PutWrite" /\ goroutine[g].found
        /\ mutex.writer = g
        /\ goroutine[h].pc = "Lock" /\ goroutine[h].op = "Put"
        /\ goroutine[h].key = goroutine[g].key

(***************************************************************************)
(* C25: with the calls made one at a time, after every call the list is a  *)
(* well-formed doubly linked list: following next from head meets no node  *)
(* twice and ends at tail, head.prev and tail.next are nil, the successor  *)
(* of a node points back to it, head is nil exactly when tail is nil; and  *)
(* every node that the call took out of the list has both links nil.       *)
(* C25_WellFormedList says so of every call; C25_WellFormedUnlinked says   *)
(* it of the nodes that removeNode unlinked (Put's eviction, Evict and     *)
(* GetAll's sweep), leaving out the nodes that EvictAll drops.             *)
(***************************************************************************)
WellFormed ==
    \A l \in {List} :
       /\ Len(l) <= MaxNodes
       /\ \A i, j \in DOMAIN l : i # j => l[i] # l[j]
       /\ (head = Nil) <=> (tail = Nil)
       /\ head # Nil =>
            /\ node[head].prev = Nil
            /\ node[tail].next = Nil
            /\ l[Len(l)] = tail
       /\ \A i \in 1..(Len(l) - 1) : node[l[i + 1]].prev = l[i]

\* the struct as the call of the step leaves it, before any Node is collected
Outcome ==
    CASE last'.op = "Put" ->
           PutCall(Self, last'.ctx, last'.key, last'.value, last'.ttl).c
      [] last'.op = "Get" -> GetCall(Self, last'.ctx, last'.key).c
      [] last'.op = "GetAll" ->
           GetAllCall(Self, last'.ctx,
                      IF last'.doneAfter = Never THEN Len(List)
                      ELSE last'.doneAfter).c
      [] last'.op = "Evict" -> EvictCall(Self, last'.ctx, last'.key).c
      [] last'.op = "EvictAll" -> EvictAllCall(Self, last'.ctx).c

LinksNil(c, n) == c.node[n].prev = Nil /\ c.node[n].next = Nil

\* the nodes of the list before the step that are in c's list no more
Unlinked(c) == (SeqSet(List) \ SeqSet(ListOf(c))) \cap DOMAIN c.node

\* the node the Put of the step evicted has both links nil
EvictedLinksNil ==
    (last'.op = "Put" /\ last'.path = "evict")
        => LinksNil(PutEvictTail(Self), tail)

C25_WellFormedList ==
    [][last'.op \in CallOps =>
        /\ WellFormed'
        /\ EvictedLinksNil
        /\ \A o \in {Outcome} : \A n \in Unlinked(o) : LinksNil(o, n)]_vars

C25_WellFormedUnlinked ==
    [][last'.op \in CallOps =>
        /\ WellFormed'
        /\ EvictedLinksNil
        /\ last'.op # "EvictAll"
             => \A o \in {Outcome} : \A n \in Unlinked(o) : LinksNil(o, n)]_vars

\* an Evict has taken the head out of a list of two nodes or more
C25_Witness ==
    /\ last.op = "Evict" /\ last.err = OK
    /\ head # Nil
    /\ WellFormed


(***************************************************************************)
(* C27: with a capacity of one or more and the calls made one at a time,   *)
(* no call returns the nil-node error: whenever the index holds capacity   *)
(* keys or more the tail is not nil, so a Put that finds the index full    *)
(* finds a tail to evict, and every key of the index maps to a node, so    *)
(* Get and Evict never find a nil node.                                    *)
(***************************************************************************)
C27_NoNilNode ==
    /\ capacity >= 1
    /\ last.err # errNilNode
    /\ Cardinality(Index) >= capacity => tail # Nil
    /\ \A k \in Index : cache[k] # Nil /\ cache[k] \in DOMAIN node

\* a Put found the index at capacity and evicted the tail it found
C27_Witness ==
    /\ last.op = "Put" /\ last.path = "evict" /\ last.err = OK
    /\ Cardinality(Index) = capacity
    /\ tail # Nil


(***************************************************************************)
(* C22: a key whose entry the clock has not passed leaves the index only   *)
(* by an Evict of that key, by an EvictAll, or by a Put that finds the     *)
(* index full while the key is the one stored longest ago among the        *)
(* indexed keys; no Get, no GetAll and no Put below capacity takes it out. *)
(***************************************************************************)
C22_UnexpiredKeyStays ==
    [][\A k \in Index \ Index' :
          ~Expired(cache[k]) =>
             \/ EvictStep /\ last'.key = k
             \/ EvictAllStep
             \/ OverflowStep /\ k = OldestIndexed]_vars


(***************************************************************************)
(* C23: the status of every handler's response follows from what the cache *)
(* returned: 2xx on success; 400 on an empty key, a negative ttl or a body *)
(* that does not decode; 404 on key not found and key expired; an empty    *)
(* 2xx response when GetAll finds the cache empty; 500 on every other      *)
(* failure (nil node, a cancelled context, EvictAll on an empty cache).    *)
(***************************************************************************)
Success == 200..299

ExpectedStatus ==
    IF last.path = "invalid body" THEN {StatusBadRequest}
    ELSE IF last.ctx = "cancelled" THEN {StatusInternalServerError}
    ELSE CASE last.err = OK -> Success
           [] last.err \in {errEmptyKey, errNegativeTTL} -> {StatusBadRequest}
           [] last.err \in {errKeyNotFound, errExpiredKey} -> {StatusNotFound}
           [] last.err = errEmptyCache /\ last.op = "GetAll" -> Success
           [] OTHER -> {StatusInternalServerError}

C23_StatusFollowsResult ==
    last.handler \in Handlers =>
        /\ last.status \in ExpectedStatus
        /\ (last.op = "GetAll" /\ last.err = errEmptyCache)
              => (last.rkeys = <<>> /\ last.rvalues = <<>>)


(***************************************************************************)
(* C24: in a cache built with defaultTTL = 0 and room for two keys, once   *)
(* two distinct keys are stored with ttl 0, a GET of all at a later        *)
(* instant of the clock answers 200 with both keys and both values; and a  *)
(* DELETE of all on a cache that holds a key answers 204, after which a    *)
(* GET of a key answers 404.  The requests' contexts are never cancelled.  *)
(***************************************************************************)
\* two keys stored with ttl 0 at an instant before now, both there to be read
TwoStoredEarlier ==
    /\ defaultTTL = 0
    /\ Cardinality(Index) = 2
    /\ Len(List) = 2
    /\ \A k \in Index : cache[k] \in SeqSet(List)
    /\ \A i \in DOMAIN List : node[List[i]].TTL < now

Answered(h) ==
    last'.handler = h /\ last'.ctx = "live" /\ last'.doneAfter = Never

C24_ReadAllAndDeleteAll ==
    [][/\ (TwoStoredEarlier /\ Answered("GetAllLRUHandler"))
            => /\ last'.status = StatusOK
               /\ {last'.rkeys[i] : i \in DOMAIN last'.rkeys} = Index
               /\ Len(last'.rvalues) = 2
       /\ (Index # {} /\ Answered("DeleteAllLRUHandler"))
            => last'.status = StatusNoContent
       /\ (last.handler = "DeleteAllLRUHandler" /\ last.status = StatusNoContent
             /\ Answered("GetLRUHandler"))
            => last'.status = StatusNotFound]_vars


(***************************************************************************)
(* C26: Gets and GetAlls that run together under the read lock leave the   *)
(* cache as some one-at-a-time run of the same calls would; in particular  *)
(* every indexed key whose node the clock has not passed has its node in   *)
(* the list that starts at head.                                           *)
(***************************************************************************)
C26_UnexpiredReachable ==
    \A k \in Index : ~Expired(cache[k]) => cache[k] \in SeqSet(List)


(***************************************************************************)
(* C21: every call returns and releases the lock it took, whatever calls   *)
(* run beside it, so that the callers that wait get the lock and every     *)
(* traversal of GetAll comes to its end.  A call returns only by running   *)
(* its statements: a goroutine that is under the lock can always run the   *)
(* next statement of its method, up to the return that unlocks.            *)
(***************************************************************************)
C21_CallsCanReturn ==
    \A g \in Threads : UnderLock(g) => ENABLED Body(g)

=============================================================================
